---- MODULE Spec2Model ----
(***************************************************************************)
(* Model of src/error.rs of Discord-TTS-Bot: the error aggregation in      *)
(* handle_unexpected (one webhook message per distinct backtrace, counted  *)
(* in the `errors` table) and the traceback lookup in                      *)
(* handle_traceback_button.                                                *)
(*                                                                         *)
(* Every `.await` of the two handlers is one step of a task; tasks         *)
(* interleave at those points only (cooperative scheduling).  Every store  *)
(* and webhook call may fail; `?` then returns the error from the handler. *)
(***************************************************************************)
EXTENDS Integers, FiniteSets, Sequences, TLC

\* ------------------------------------------------------------------ bounds

\* Number of handle_unexpected calls made in one run.
NumTasks == 3

\* Connections in data.pool.
PoolSize == 3

\* Store / webhook calls that are allowed to fail in one run.
MaxFailures == 2

\* Width in bits of the message id (64 in the program, scaled down), and
\* the id the webhook gives to the first message it creates.  The ids
\* handed out cross the sign bit of the width.
IdBits == 4
FirstId == 7

Tasks == 1..NumTasks

\* The faults reported: (error.to_string(), error.backtrace().to_string()).
Errors ==
    { [display |-> "nil pointer", backtrace |-> "at X"],
      [display |-> "index out of range", backtrace |-> "at Y"] }

\* ------------------------------------------------------- values and helpers

\* Option<T>: None is the empty set, Some(x) the singleton.
None == {}
Some(x) == {x}
Unwrap(o) == CHOOSE x \in o : TRUE

\* Result<(), Error>: not returned yet, Ok(()), or Err(Error::Unexpected(e))
\* where e is the error of the call that failed.
Pending == <<>>
Ok == <<"Ok">>
Err(op) == <<"Err", op>>

\* The library error a failed call yields, which `?` turns into
\* Error::Unexpected(anyhow::Error) through the blanket From of line 18.
ErrorSource(op) ==
    CASE op \in {"pool.get", "button.pool.get"} -> "deadpool_postgres::PoolError"
      [] op \in {"query_opt", "query_one", "button.query_opt"} -> "tokio_postgres::Error"
      [] OTHER -> "serenity::Error"

\* The value the caller of the handler holds: the enum variant and, inside
\* its anyhow::Error, the library error.
TypedResult(r) ==
    IF Len(r) = 2 THEN <<"Err", "Error::Unexpected", ErrorSource(r[2])>> ELSE r

\* `id as i64` and `id as u64`: two's complement reinterpretation
\* (AsU64_NoWrap: a conversion back that keeps the sign).
AsI64(u) == IF u >= 2^(IdBits - 1) THEN u - 2^IdBits ELSE u
AsU64_NoWrap(i) == i
AsU64(i) == IF i < 0 THEN i + 2^IdBits ELSE i

\* A hash that maps every backtrace to the same digest.
hash_colliding(data) == <<"sha256", "">>

\* sha2::Sha256 over the bytes: deterministic, and taken to be free of
\* collisions on the backtraces of a run.
hash(data) == <<"sha256", data>>

\* The footer texts of lines 67 and 117.
FooterFirst == <<"This error has occurred ", 1, " time!">>
FooterTimes(n) == <<"This error has occurred ", n, " times!">>

\* Column default of errors.occurrences (the table is created outside
\* error.rs).
DefaultOccurrences == 1

\* ------------------------------------------------------------ SQL statements

RowsWithHash(tbl, h) == {r \in tbl : r.traceback_hash = h}

\* An UPDATE that matches the row but writes the count back unchanged.
UpdateOccurrences_NoIncrement(tbl, h) == tbl

\* UPDATE errors SET occurrences = occurrences + 1 WHERE traceback_hash = $1
UpdateOccurrences(tbl, h) ==
    { IF r.traceback_hash = h
        THEN [r EXCEPT !.occurrences = r.occurrences + 1]
        ELSE r : r \in tbl }

\* ... RETURNING message_id, occurrences (of the rows after the update)
UpdateReturning(tbl, h) ==
    { [message_id |-> r.message_id, occurrences |-> r.occurrences] :
        r \in RowsWithHash(UpdateOccurrences(tbl, h), h) }

NewRow(h, tb, mid) ==
    [traceback_hash |-> h, traceback |-> tb, message_id |-> mid,
     occurrences |-> DefaultOccurrences]

\* An INSERT without the ON CONFLICT clause and without the unique index.
Upsert_PlainInsert(tbl, h, tb, mid) == tbl \cup {NewRow(h, tb, mid)}

\* An upsert whose conflict branch also takes the new message id.
Upsert_TakesNewMessage(tbl, h, tb, mid) ==
    IF RowsWithHash(tbl, h) = {}
      THEN tbl \cup {NewRow(h, tb, mid)}
      ELSE { IF r.traceback_hash = h
               THEN [r EXCEPT !.occurrences = r.occurrences + 1,
                              !.message_id = mid]
               ELSE r : r \in tbl }

\* An upsert whose conflict branch does nothing (ON CONFLICT DO NOTHING).
Upsert_DoNothing(tbl, h, tb, mid) ==
    IF RowsWithHash(tbl, h) = {}
      THEN tbl \cup {NewRow(h, tb, mid)}
      ELSE tbl

\* An upsert whose conflict branch resets the row as if new.
Upsert_Resets(tbl, h, tb, mid) ==
    IF RowsWithHash(tbl, h) = {}
      THEN tbl \cup {NewRow(h, tb, mid)}
      ELSE { IF r.traceback_hash = h
               THEN [r EXCEPT !.occurrences = DefaultOccurrences]
               ELSE r : r \in tbl }

\* INSERT INTO errors(traceback_hash, traceback, message_id) VALUES(...)
\* ON CONFLICT (traceback_hash) DO UPDATE SET occurrences = occurrences + 1
Upsert(tbl, h, tb, mid) ==
    IF RowsWithHash(tbl, h) = {}
      THEN tbl \cup {NewRow(h, tb, mid)}
      ELSE UpdateOccurrences(tbl, h)

\* ... RETURNING errors.message_id (of the row inserted or updated)
UpsertReturning(tbl, h, tb, mid) ==
    { [message_id |-> r.message_id] :
        r \in RowsWithHash(Upsert(tbl, h, tb, mid), h) }

\* A lookup whose WHERE clause is missing.
SelectTraceback_NoWhere(tbl, mid) == { [traceback |-> r.traceback] : r \in tbl }

\* SELECT traceback FROM errors WHERE message_id = $1
SelectTraceback(tbl, mid) ==
    { [traceback |-> r.traceback] : r \in {x \in tbl : x.message_id = mid} }

\* A reconciliation that never finds its message orphaned.
IsOrphan_Never(msg, r) == FALSE

\* A reconciliation that finds every message orphaned.
IsOrphan_Always(msg, r) == TRUE

\* message.id.0 != (row.get::<_, i64>("message_id") as u64)
IsOrphan(msg, r) == msg.id /= AsU64(r.message_id)

\* ------------------------------------------------------------------- state

VARIABLES
    errors,       \* the rows of table `errors`
    webhook,      \* the messages of the errors webhook: id -> embed
    next_id,      \* the id the webhook gives to its next message
    available,    \* connections of data.pool not held by a task
    failures,     \* calls that have failed so far
    pc,           \* per task: the await it is suspended at
    error,        \* per task: Option of the `error` argument
    interaction,  \* per task: Option of interaction.message.id
    row,          \* per task: Option of `row` (line 58, 130 or 337)
    embed,        \* per task: Option of `embed` (line 65)
    message,      \* per task: Option of `message` (line 122)
    response,     \* per task: Option of the interaction response sent
    result,       \* per task: the value the handler returned
    framework_error,  \* per task: Option of the GuildOnly fault given to handle
    reply         \* per task: Option of the message ctx.send_error sent

host == <<framework_error, reply>>

store == <<errors, webhook, next_id>>
locals == <<error, interaction, host, row, embed, message, response>>
vars == <<errors, webhook, next_id, available, failures,
          pc, error, interaction, host, row, embed, message, response, result>>

\* The short message taken where the backtrace is meant.
traceback_IsDisplay(p) == Unwrap(error[p]).display

\* error.backtrace().to_string() and error.to_string()
traceback(p) == Unwrap(error[p]).backtrace
short_error(p) == Unwrap(error[p]).display
traceback_hash(p) == hash(traceback(p))

Init ==
    /\ errors = {}
    /\ webhook = <<>>
    /\ next_id = FirstId
    /\ available = PoolSize
    /\ failures = 0
    /\ pc = [p \in Tasks |-> "idle"]
    /\ error = [p \in Tasks |-> None]
    /\ interaction = [p \in Tasks |-> None]
    /\ row = [p \in Tasks |-> None]
    /\ embed = [p \in Tasks |-> None]
    /\ message = [p \in Tasks |-> None]
    /\ response = [p \in Tasks |-> None]
    /\ result = [p \in Tasks |-> Pending]
    /\ framework_error = [p \in Tasks |-> None]
    /\ reply = [p \in Tasks |-> None]

\* Tasks are interchangeable, so they are started in order of their number.
\* The task started last may instead be a traceback lookup or the handling
\* of a GuildOnly error: one such task per run, at any point of the other
\* tasks' progress.
StartsNext(p) == pc[p] = "idle" /\ (IF p = 1 THEN TRUE ELSE pc[p - 1] /= "idle")
MayPress(p) == p = NumTasks

\* A return that leaks the connection it holds.
Return_KeepsConnection(p, r, held) ==
    /\ pc' = [pc EXCEPT ![p] = "done"]
    /\ result' = [result EXCEPT ![p] = r]
    /\ available' = available

\* The task returns `r`; a held connection goes back to the pool on drop.
Return(p, r, held) ==
    /\ pc' = [pc EXCEPT ![p] = "done"]
    /\ result' = [result EXCEPT ![p] = r]
    /\ available' = IF held THEN available + 1 ELSE available

\* A failed call that is issued again instead of returning.
Fail_Retries(p, at, held) ==
    /\ pc[p] = at
    /\ failures < MaxFailures
    /\ failures' = failures + 1
    /\ UNCHANGED <<store, locals, pc, result, available>>

\* A call of the task fails: `?` returns the error.
Fail(p, at, held) ==
    /\ pc[p] = at
    /\ failures < MaxFailures
    /\ failures' = failures + 1
    /\ Return(p, Err(at), held)
    /\ UNCHANGED <<store, locals>>

\* ------------------------------------------------------- handle_unexpected

\* handle_unexpected is called with `e`.
Call(p, e) ==
    /\ StartsNext(p)
    /\ error' = [error EXCEPT ![p] = Some(e)]
    /\ pc' = [pc EXCEPT ![p] = "pool.get"]
    /\ UNCHANGED <<store, available, failures, interaction, host, row, embed,
                   message, response, result>>

\* data.pool.get().await
PoolGet(p) ==
    /\ pc[p] = "pool.get"
    /\ available > 0
    /\ available' = available - 1
    /\ pc' = [pc EXCEPT ![p] = "query_opt"]
    /\ UNCHANGED <<store, failures, locals, result>>

PoolGetFail(p) == Fail(p, "pool.get", FALSE)

\* conn.query_opt(UPDATE ... RETURNING ...): a row, no row, or (more than
\* one row returned) an error.
QueryOpt(p) ==
    /\ pc[p] = "query_opt"
    /\ LET ret == UpdateReturning(errors, traceback_hash(p)) IN
       /\ errors' = UpdateOccurrences(errors, traceback_hash(p))
       /\ IF Cardinality(ret) > 1
            THEN /\ Return(p, Err("query_opt"), TRUE)
                 /\ UNCHANGED row
            ELSE /\ row' = [row EXCEPT ![p] = ret]
                 /\ pc' = [pc EXCEPT ![p] =
                        IF ret = None THEN "execute" ELSE "get_message"]
                 /\ UNCHANGED <<available, result>>
    /\ UNCHANGED <<webhook, next_id, failures, error, interaction, host, embed,
                   message, response>>

QueryOptFail(p) == Fail(p, "query_opt", TRUE)

\* serenity::MessageId(row.get::<_, i64>("message_id") as u64)
message_id(p) == AsU64(Unwrap(row[p]).message_id)

\* error_webhook.get_message(message_id): the message, or an error when the
\* webhook has no such message.
GetMessage(p) ==
    /\ pc[p] = "get_message"
    /\ IF message_id(p) \in DOMAIN webhook
         THEN /\ embed' = [embed EXCEPT ![p] = Some(webhook[message_id(p)])]
              /\ pc' = [pc EXCEPT ![p] = "edit_message"]
              /\ UNCHANGED <<available, result>>
         ELSE /\ Return(p, Err("get_message"), TRUE)
              /\ UNCHANGED embed
    /\ UNCHANGED <<store, failures, error, interaction, host, row, message, response>>

GetMessageFail(p) == Fail(p, "get_message", TRUE)

\* An edit that rebuilds the embed and loses its title.
WithFooter_DropsTitle(e, n) == [title |-> "", footer |-> FooterTimes(n)]

\* embed.footer.text = format!(..., occurrences)
WithFooter(e, n) == [e EXCEPT !.footer = FooterTimes(n)]

\* error_webhook.edit_message(message_id, embeds(vec![embed]))
EditMessage(p) ==
    /\ pc[p] = "edit_message"
    /\ LET edited == WithFooter(Unwrap(embed[p]), Unwrap(row[p]).occurrences) IN
       IF message_id(p) \in DOMAIN webhook
         THEN /\ webhook' = [webhook EXCEPT ![message_id(p)] = edited]
              /\ embed' = [embed EXCEPT ![p] = Some(edited)]
              /\ Return(p, Ok, TRUE)
         ELSE /\ Return(p, Err("edit_message"), TRUE)
              /\ UNCHANGED <<webhook, embed>>
    /\ UNCHANGED <<errors, next_id, failures, error, interaction, host, row,
                   message, response>>

EditMessageFail(p) == Fail(p, "edit_message", TRUE)

\* serenity::Embed::fake(...): title and footer of the new message.
NewEmbed(p) == [title |-> short_error(p), footer |-> FooterFirst]

\* error_webhook.execute(wait = true, embeds(vec![embed]))
Execute(p) ==
    /\ pc[p] = "execute"
    /\ next_id < 2^IdBits
    /\ webhook' = [i \in DOMAIN webhook \cup {next_id} |->
                     IF i = next_id THEN NewEmbed(p) ELSE webhook[i]]
    /\ next_id' = next_id + 1
    /\ message' = [message EXCEPT ![p] =
                     Some([id |-> next_id, embed |-> NewEmbed(p)])]
    /\ pc' = [pc EXCEPT ![p] = "query_one"]
    /\ UNCHANGED <<errors, available, failures, error, interaction, host, row,
                   embed, response, result>>

ExecuteFail(p) == Fail(p, "execute", TRUE)

\* conn.query_one(INSERT ... ON CONFLICT ... RETURNING errors.message_id),
\* then the comparison of line 139.
QueryOne(p) ==
    /\ pc[p] = "query_one"
    /\ LET mid == AsI64(Unwrap(message[p]).id)
           ret == UpsertReturning(errors, traceback_hash(p), traceback(p), mid)
       IN
       /\ errors' = Upsert(errors, traceback_hash(p), traceback(p), mid)
       /\ IF Cardinality(ret) /= 1
            THEN /\ Return(p, Err("query_one"), TRUE)
                 /\ UNCHANGED row
            ELSE /\ row' = [row EXCEPT ![p] = ret]
                 /\ IF IsOrphan(Unwrap(message[p]), Unwrap(ret))
                      THEN /\ pc' = [pc EXCEPT ![p] = "delete_message"]
                           /\ UNCHANGED <<available, result>>
                      ELSE Return(p, Ok, TRUE)
    /\ UNCHANGED <<webhook, next_id, failures, error, interaction, host, embed,
                   message, response>>

QueryOneFail(p) == Fail(p, "query_one", TRUE)

\* error_webhook.delete_message(message.id)
DeleteMessage(p) ==
    /\ pc[p] = "delete_message"
    /\ LET id == Unwrap(message[p]).id IN
       IF id \in DOMAIN webhook
         THEN /\ webhook' = [i \in DOMAIN webhook \ {id} |-> webhook[i]]
              /\ Return(p, Ok, TRUE)
         ELSE /\ Return(p, Err("delete_message"), TRUE)
              /\ UNCHANGED webhook
    /\ UNCHANGED <<errors, next_id, failures, locals>>

DeleteMessageFail(p) == Fail(p, "delete_message", TRUE)

\* ------------------------------------------------- handle_traceback_button

\* The "View Traceback" button of webhook message `id` is pressed.
Press(p, id) ==
    /\ StartsNext(p)
    /\ MayPress(p)
    /\ id \in DOMAIN webhook
    /\ interaction' = [interaction EXCEPT ![p] = Some(id)]
    /\ pc' = [pc EXCEPT ![p] = "button.pool.get"]
    /\ UNCHANGED <<store, available, failures, error, row, embed, message,
                   response, result, host>>

\* data.pool.get().await
ButtonPoolGet(p) ==
    /\ pc[p] = "button.pool.get"
    /\ available > 0
    /\ available' = available - 1
    /\ pc' = [pc EXCEPT ![p] = "button.query_opt"]
    /\ UNCHANGED <<store, failures, locals, result>>

ButtonPoolGetFail(p) == Fail(p, "button.pool.get", FALSE)

\* conn.query_opt(SELECT traceback ...): a row, no row, or (more than one
\* row returned) an error.
ButtonQueryOpt(p) ==
    /\ pc[p] = "button.query_opt"
    /\ LET ret == SelectTraceback(errors, AsI64(Unwrap(interaction[p]))) IN
       IF Cardinality(ret) > 1
         THEN /\ Return(p, Err("button.query_opt"), TRUE)
              /\ UNCHANGED row
         ELSE /\ row' = [row EXCEPT ![p] = ret]
              /\ pc' = [pc EXCEPT ![p] = "create_interaction_response"]
              /\ UNCHANGED <<available, result>>
    /\ UNCHANGED <<store, failures, error, interaction, host, embed, message,
                   response>>

ButtonQueryOptFail(p) == Fail(p, "button.query_opt", TRUE)

\* The response built by the closure of lines 344 to 355.
Response(r) ==
    IF r /= None
      THEN [files |-> <<[data |-> Unwrap(r).traceback,
                         filename |-> "traceback.txt"]>>,
            content |-> ""]
      ELSE [files |-> <<>>, content |-> "No traceback found."]

\* interaction.create_interaction_response(...)
CreateInteractionResponse(p) ==
    /\ pc[p] = "create_interaction_response"
    /\ response' = [response EXCEPT ![p] = Some(Response(row[p]))]
    /\ Return(p, Ok, TRUE)
    /\ UNCHANGED <<store, failures, error, interaction, host, row, embed, message>>

CreateInteractionResponseFail(p) ==
    Fail(p, "create_interaction_response", TRUE)

\* ------------------------------------------------------------------ handle

\* The fault handle_unexpected would be given for Error::GuildOnly: its
\* Display prints nothing (lines 24 to 28).
GuildOnlyFault == [display |-> "", backtrace |-> "at guild_only"]

\* A dispatch that sends every fault to handle_unexpected.
Aggregates_Always(err) == TRUE

\* The match arms of lines 232 to 240 and 269 to 271: Error::Unexpected goes
\* to handle_unexpected, Error::GuildOnly does not.
Aggregates(err) == err /= "GuildOnly"

\* What ctx.send_error is given for Error::GuildOnly (lines 233 to 239).
GuildOnlyReply ==
    [error |-> "{command} cannot be used in private messages",
     fix |-> "try running it on a server with {bot} in"]

\* handle is called with FrameworkError::Command or ::Listener (kind)
\* carrying Error::GuildOnly.  (With Error::Unexpected the model follows
\* the handle_unexpected call, see Call.)
HandleGuildOnly(p, kind) ==
    /\ StartsNext(p)
    /\ MayPress(p)
    /\ framework_error' = [framework_error EXCEPT ![p] =
            Some([kind |-> kind, error |-> "GuildOnly"])]
    /\ IF Aggregates("GuildOnly")
         THEN /\ error' = [error EXCEPT ![p] = Some(GuildOnlyFault)]
              /\ pc' = [pc EXCEPT ![p] = "pool.get"]
              /\ UNCHANGED <<available, result>>
         ELSE /\ IF kind = "Command"
                   THEN /\ pc' = [pc EXCEPT ![p] = "send_error"]
                        /\ UNCHANGED <<available, result>>
                   ELSE Return(p, Ok, FALSE)
              /\ UNCHANGED error
    /\ UNCHANGED <<store, failures, interaction, row, embed, message,
                   response, reply>>

\* ctx.send_error(&error, fix).await
SendError(p) ==
    /\ pc[p] = "send_error"
    /\ reply' = [reply EXCEPT ![p] = Some(GuildOnlyReply)]
    /\ Return(p, Ok, FALSE)
    /\ UNCHANGED <<store, failures, error, interaction, row, embed, message,
                   response, framework_error>>

SendErrorFail(p) == Fail(p, "send_error", FALSE)

\* -------------------------------------------------------------------- spec

Next ==
    \/ \E p \in Tasks, e \in Errors : Call(p, e)
    \/ \E p \in Tasks : PoolGet(p)
    \/ \E p \in Tasks : PoolGetFail(p)
    \/ \E p \in Tasks : QueryOpt(p)
    \/ \E p \in Tasks : QueryOptFail(p)
    \/ \E p \in Tasks : GetMessage(p)
    \/ \E p \in Tasks : GetMessageFail(p)
    \/ \E p \in Tasks : EditMessage(p)
    \/ \E p \in Tasks : EditMessageFail(p)
    \/ \E p \in Tasks : Execute(p)
    \/ \E p \in Tasks : ExecuteFail(p)
    \/ \E p \in Tasks : QueryOne(p)
    \/ \E p \in Tasks : QueryOneFail(p)
    \/ \E p \in Tasks : DeleteMessage(p)
    \/ \E p \in Tasks : DeleteMessageFail(p)
    \/ \E p \in Tasks, id \in FirstId..(2^IdBits - 1) : Press(p, id)
    \/ \E p \in Tasks : ButtonPoolGet(p)
    \/ \E p \in Tasks : ButtonPoolGetFail(p)
    \/ \E p \in Tasks : ButtonQueryOpt(p)
    \/ \E p \in Tasks : ButtonQueryOptFail(p)
    \/ \E p \in Tasks : CreateInteractionResponse(p)
    \/ \E p \in Tasks : CreateInteractionResponseFail(p)
    \/ \E p \in Tasks, kind \in {"Command", "Listener"} : HandleGuildOnly(p, kind)
    \/ \E p \in Tasks : SendError(p)
    \/ \E p \in Tasks : SendErrorFail(p)

Spec == Init /\ [][Next]_vars

\* ------------------------------------------------- vocabulary of the claims

IsErr(r) == Len(r) = 2
Hashes == {hash(e.backtrace) : e \in Errors}

\* The handle_unexpected calls made so far for fingerprint h.
CallsFor(h) == {p \in Tasks : error[p] /= None /\ hash(Unwrap(error[p]).backtrace) = h}

\* The call's UPDATE or INSERT returned a row: it changed the table.
Recorded(p) == error[p] /= None /\ row[p] /= None

\* occurrences of the incident of fingerprint h, 0 when there is none.
Occurrences(h) ==
    IF RowsWithHash(errors, h) = {} THEN 0
    ELSE (CHOOSE r \in RowsWithHash(errors, h) : TRUE).occurrences

\* occurrences of a row that n calls recorded into.
Expected(n) == IF n = 0 THEN 0 ELSE DefaultOccurrences + (n - 1)

\* The calls for p's fingerprint, other than p, that recorded.
OthersRecorded(p) ==
    Cardinality({q \in CallsFor(traceback_hash(p)) \ {p} : Recorded(q)})

\* The call published a message (it took the create branch).
Published(p) == message[p] /= None
OwnId(p) == Unwrap(message[p]).id

\* The call lost the create race: the upsert returned another message id.
LostRace(p) ==
    /\ Published(p)
    /\ Recorded(p)
    /\ OwnId(p) /= AsU64(Unwrap(row[p]).message_id)

\* ------------------------------------------------------------------ claims

\* C1: when N calls of handle_unexpected with the same backtrace have all
\* returned Ok (and no other call for it is in flight), the row of that
\* fingerprint has occurrences = N.
C1_CountIsNumberOfCalls ==
    \A h \in Hashes :
        (/\ CallsFor(h) /= {}
         /\ \A p \in CallsFor(h) : pc[p] = "done" /\ result[p] = Ok)
        => /\ RowsWithHash(errors, h) /= {}
           /\ \A r \in RowsWithHash(errors, h) :
                  r.occurrences = Cardinality(CallsFor(h))

C1_Witness ==
    \E h \in Hashes :
        /\ Cardinality(CallsFor(h)) = 3
        /\ \A p \in CallsFor(h) : pc[p] = "done" /\ result[p] = Ok
        /\ Occurrences(h) = 3
        /\ \E p \in CallsFor(h) : LostRace(p)
        /\ \E p \in CallsFor(h) : embed[p] /= None

\* C2: when exactly two calls were made for a fingerprint, both found no row
\* and published, and both have returned Ok, exactly one of the two messages
\* is still in the webhook and the row has occurrences = 2.
C2_RaceLeavesOneMessage ==
    \A p, q \in Tasks :
        (/\ p /= q
         /\ Published(p) /\ Published(q)
         /\ traceback_hash(p) = traceback_hash(q)
         /\ CallsFor(traceback_hash(p)) = {p, q}
         /\ pc[p] = "done" /\ result[p] = Ok
         /\ pc[q] = "done" /\ result[q] = Ok)
        => /\ (OwnId(p) \in DOMAIN webhook) /= (OwnId(q) \in DOMAIN webhook)
           /\ Occurrences(traceback_hash(p)) = 2

C2_Witness ==
    \E p, q \in Tasks :
        /\ p /= q
        /\ Published(p) /\ Published(q)
        /\ traceback_hash(p) = traceback_hash(q)
        /\ CallsFor(traceback_hash(p)) = {p, q}
        /\ pc[p] = "done" /\ result[p] = Ok
        /\ pc[q] = "done" /\ result[q] = Ok
        /\ OwnId(p) \in DOMAIN webhook
        /\ OwnId(q) \notin DOMAIN webhook

\* C3: the table never holds two rows with the same traceback_hash.
C3_OneRowPerHash ==
    \A r1, r2 \in errors : r1.traceback_hash = r2.traceback_hash => r1 = r2

C3_Witness ==
    \E p, q \in Tasks :
        /\ p /= q
        /\ pc[p] = "delete_message"
        /\ pc[q] = "delete_message"
        /\ traceback_hash(p) = traceback_hash(q)
        /\ Cardinality(RowsWithHash(errors, traceback_hash(p))) = 1
        /\ Occurrences(traceback_hash(p)) = 3

\* C4 as stated: a call that returned an error, whatever call failed, left
\* the table as if it had not been made: the count of its fingerprint is
\* the number of other calls that recorded.
C4_FailedCallRecordedNothing ==
    \A p \in Tasks :
        (error[p] /= None /\ IsErr(result[p])) =>
            Occurrences(traceback_hash(p)) = Expected(OthersRecorded(p))

\* C4 amended: a call that returned the error of pool.get, of the UPDATE, of
\* execute or of the INSERT recorded nothing; a call that returned the error
\* of get_message, edit_message or delete_message recorded exactly one
\* occurrence.
C4_FailedCallRecordedByStep ==
    \A p \in Tasks :
        (error[p] /= None /\ IsErr(result[p])) =>
            IF result[p][2] \in {"pool.get", "query_opt", "execute", "query_one"}
              THEN Occurrences(traceback_hash(p)) = Expected(OthersRecorded(p))
              ELSE /\ result[p][2] \in
                        {"get_message", "edit_message", "delete_message"}
                   /\ Occurrences(traceback_hash(p)) =
                        Expected(OthersRecorded(p) + 1)

C4_Witness ==
    \E p \in Tasks :
        /\ error[p] /= None
        /\ result[p] = Err("edit_message")
        /\ Occurrences(traceback_hash(p)) = 2
        /\ Cardinality(CallsFor(traceback_hash(p))) = 2

\* C5 as stated: a call that lost the create race returns Ok, also when the
\* delete of its own message failed.
C5_LoserReturnsOk ==
    \A p \in Tasks : (pc[p] = "done" /\ LostRace(p)) => result[p] = Ok

\* The task that published webhook message `id`.
Publisher(id) == CHOOSE q \in Tasks : Published(q) /\ OwnId(q) = id
HasPublisher(id) == \E q \in Tasks : Published(q) /\ OwnId(q) = id

\* The row was inserted by the upsert of task q, with q's message.
CreatedBy(r, q) ==
    /\ Published(q)
    /\ OwnId(q) = AsU64(r.message_id)
    /\ AsI64(OwnId(q)) = r.message_id
    /\ hash(Unwrap(error[q]).backtrace) = r.traceback_hash
    /\ row[q] = Some([message_id |-> r.message_id])

\* Every row stays (steps), with its message_id, its traceback, or at least
\* its occurrences.
KeepsMessageId ==
    \A r \in errors : \E r2 \in errors' :
        r2.traceback_hash = r.traceback_hash /\ r2.message_id = r.message_id
KeepsTraceback ==
    \A r \in errors : \E r2 \in errors' :
        r2.traceback_hash = r.traceback_hash /\ r2.traceback = r.traceback
KeepsOccurrences ==
    \A r \in errors : \E r2 \in errors' :
        r2.traceback_hash = r.traceback_hash /\ r2.occurrences >= r.occurrences

\* C6: a row's message_id never changes once the row exists, no two rows
\* hold the same message_id, and every row's message_id is the id of the
\* message published by the call whose INSERT created the row.
C6_MessageIdStableAndOwn ==
    /\ [][KeepsMessageId]_vars
    /\ [](\A r1, r2 \in errors : r1.message_id = r2.message_id => r1 = r2)
    /\ [](\A r \in errors : \E q \in Tasks : CreatedBy(r, q))

C6_Witness ==
    /\ Cardinality(errors) = 2
    /\ \E r \in errors :
          /\ r.occurrences = 2
          /\ r.message_id < 0
          /\ \E q \in Tasks : CreatedBy(r, q) /\ pc[q] = "done"

\* The traceback lookup of task p, for webhook message id, has run its query.
Looked(p) ==
    /\ interaction[p] /= None
    /\ pc[p] = "create_interaction_response" \/ (pc[p] = "done" /\ result[p] = Ok)
LookupStep(p) ==
    /\ pc[p] = "button.query_opt"
    /\ pc'[p] = "create_interaction_response"
HoldersOf(id) == {r \in errors : AsU64(r.message_id) = id}
File(t) == [files |-> <<[data |-> t, filename |-> "traceback.txt"]>>, content |-> ""]
NotFound == [files |-> <<>>, content |-> "No traceback found."]

\* C7: a lookup for a message id that a row holds finds the backtrace given
\* to the call that published that message and created the row, and answers
\* with exactly that text as traceback.txt; the stored traceback of a row
\* never changes.
C7_LookupReturnsFirstBacktrace ==
    /\ [][\A p \in Tasks : LookupStep(p) =>
            (HoldersOf(Unwrap(interaction[p])) /= {} =>
               row'[p] = Some([traceback |->
                   Unwrap(error[Publisher(Unwrap(interaction[p]))]).backtrace]))]_vars
    /\ [](\A p \in Tasks :
            (Looked(p) /\ pc[p] = "done" /\ row[p] /= None) =>
               /\ HasPublisher(Unwrap(interaction[p]))
               /\ response[p] = Some(File(
                   Unwrap(error[Publisher(Unwrap(interaction[p]))]).backtrace)))
    /\ [][KeepsTraceback]_vars

C7_Witness ==
    \E p \in Tasks :
        /\ Looked(p) /\ pc[p] = "done"
        /\ response[p] = Some(File("at X"))
        /\ \E r \in HoldersOf(Unwrap(interaction[p])) : r.occurrences = 2

\* C8: a lookup for a message id that no row holds finds no row (it is not
\* an error), answers "No traceback found." and returns Ok; a lookup never
\* answers with the traceback of a row that holds another message id.
C8_UnknownRefIsNotFound ==
    /\ [][\A p \in Tasks :
            (pc[p] = "button.query_opt" /\ pc'[p] /= "button.query_opt"
               /\ HoldersOf(Unwrap(interaction[p])) = {})
            => \/ pc'[p] = "create_interaction_response" /\ row'[p] = None
               \/ result'[p] = Err("button.query_opt") /\ failures' = failures + 1]_vars
    /\ [][\A p \in Tasks :
            (pc[p] = "create_interaction_response" /\ pc'[p] = "done" /\ row[p] = None)
            => \/ result'[p] = Ok /\ response'[p] = Some(NotFound)
               \/ /\ result'[p] = Err("create_interaction_response")
                  /\ failures' = failures + 1]_vars
    /\ [](\A p \in Tasks :
            (interaction[p] /= None /\ response[p] /= None) =>
               \/ response[p] = Some(NotFound)
               \/ \E r \in HoldersOf(Unwrap(interaction[p])) :
                     response[p] = Some(File(r.traceback)))

C8_Witness ==
    \E p, q \in Tasks :
        /\ Looked(p) /\ pc[p] = "done"
        /\ response[p] = Some(NotFound)
        /\ LostRace(q)
        /\ OwnId(q) = Unwrap(interaction[p])
        /\ errors /= {}

\* The handle_unexpected calls made so far with backtrace tb.
CallsWith(tb) == {p \in Tasks : error[p] /= None /\ Unwrap(error[p]).backtrace = tb}

\* C9: two calls with different backtraces, each the only call for its
\* fingerprint, both returned Ok: each fingerprint has its own row with
\* occurrences 1, holding the id of the message that call published, which
\* is still in the webhook as published; the two ids differ.
C9_DifferentFaultsAreIndependent ==
    \A p, q \in Tasks :
        (/\ error[p] /= None /\ error[q] /= None
         /\ traceback(p) /= traceback(q)
         /\ CallsWith(traceback(p)) = {p}
         /\ CallsWith(traceback(q)) = {q}
         /\ pc[p] = "done" /\ result[p] = Ok
         /\ pc[q] = "done" /\ result[q] = Ok)
        => /\ Published(p) /\ Published(q)
           /\ OwnId(p) /= OwnId(q)
           /\ \E rp, rq \in errors :
                /\ rp /= rq
                /\ rp.traceback_hash /= rq.traceback_hash
                /\ CreatedBy(rp, p) /\ CreatedBy(rq, q)
                /\ rp.occurrences = 1 /\ rq.occurrences = 1
           /\ OwnId(p) \in DOMAIN webhook /\ webhook[OwnId(p)] = NewEmbed(p)
           /\ OwnId(q) \in DOMAIN webhook /\ webhook[OwnId(q)] = NewEmbed(q)
           /\ Cardinality(RowsWithHash(errors, hash(traceback(p)))) = 1
           /\ Cardinality(RowsWithHash(errors, hash(traceback(q)))) = 1

C9_Witness ==
    \E p, q \in Tasks :
        /\ error[p] /= None /\ error[q] /= None
        /\ traceback(p) /= traceback(q)
        /\ CallsWith(traceback(p)) = {p}
        /\ CallsWith(traceback(q)) = {q}
        /\ pc[p] = "done" /\ result[p] = Ok
        /\ pc[q] = "done" /\ result[q] = Ok
        /\ Cardinality(errors) = 2

\* The calls for fingerprint h whose UPDATE or INSERT returns a row in this
\* step.
RecordingNow(h) == {p \in CallsFor(h) : row[p] = None /\ row'[p] /= None}

\* C10: in every step, every row stays and its occurrences does not
\* decrease; and the occurrences of a fingerprint grow by exactly the number
\* of calls that record in that step (a new row counting as the first), so
\* that no recorded occurrence is overwritten.
C10_CountsNeverLost ==
    /\ [][KeepsOccurrences]_vars
    /\ [][\A h \in Hashes :
            Occurrences(h)' =
                IF Occurrences(h) = 0 /\ RecordingNow(h) /= {}
                  THEN DefaultOccurrences + Cardinality(RecordingNow(h)) - 1
                  ELSE Occurrences(h) + Cardinality(RecordingNow(h))]_vars

C10_Witness ==
    \E h \in Hashes :
        /\ Occurrences(h) = 3
        /\ \A p \in CallsFor(h) : pc[p] = "done" /\ embed[p] = None


\* The task is between its pool.get() and its return: `conn` is alive.
HoldsConnection(p) ==
    pc[p] \in {"query_opt", "get_message", "edit_message", "execute",
               "query_one", "delete_message",
               "button.query_opt", "create_interaction_response"}
InFlight(p) == pc[p] \notin {"idle", "done"}

\* C11: the connections out of the pool are exactly one per task that is
\* between its pool.get() and its return, whether it returns Ok or Err;
\* with no call in flight the pool has all its connections.
C11_ConnectionsReleased ==
    /\ available = PoolSize - Cardinality({p \in Tasks : HoldsConnection(p)})
    /\ available >= 0
    /\ (\A p \in Tasks : ~InFlight(p)) => available = PoolSize

C11_Witness ==
    /\ \A p \in Tasks : pc[p] = "done"
    /\ available = PoolSize
    /\ \E p \in Tasks : result[p] = Err("delete_message")
    /\ \E p \in Tasks : interaction[p] /= None /\ result[p] = Ok


\* The task handles Error::GuildOnly raised by a command or by a listener.
HandlesGuildOnly(p) == framework_error[p] /= None
GuildOnlyKind(p) == Unwrap(framework_error[p]).kind

\* The task never entered handle_unexpected.
NotAggregated(p) ==
    /\ error[p] = None /\ row[p] = None
    /\ embed[p] = None /\ message[p] = None

\* C12 as stated: a GuildOnly fault, from a command or from a listener,
\* is never given to handle_unexpected, and once handled a message has been
\* sent to the user.
C12_GuildOnlyRepliesToUser ==
    \A p \in Tasks :
        HandlesGuildOnly(p) =>
            /\ NotAggregated(p)
            /\ (pc[p] = "done" /\ result[p] = Ok) => reply[p] = Some(GuildOnlyReply)

\* C12 amended: a GuildOnly fault is never given to handle_unexpected and
\* no step of its handling changes the table or the webhook; raised by a
\* command a message has been sent to the user once handle returns Ok,
\* raised by a listener nothing is ever sent.
C12_GuildOnlyNotAggregated ==
    /\ [](\A p \in Tasks :
            HandlesGuildOnly(p) =>
                /\ NotAggregated(p)
                /\ pc[p] \in {"send_error", "done"}
                /\ IF GuildOnlyKind(p) = "Command"
                     THEN (pc[p] = "done" /\ result[p] = Ok)
                             => reply[p] = Some(GuildOnlyReply)
                     ELSE reply[p] = None /\ pc[p] = "done" /\ result[p] = Ok)
    /\ [][\A p \in Tasks :
            (framework_error'[p] /= None /\ pc'[p] /= pc[p])
                => UNCHANGED <<errors, webhook, next_id, available>>]_vars

C12_Witness ==
    \E p \in Tasks :
        /\ HandlesGuildOnly(p)
        /\ GuildOnlyKind(p) = "Command"
        /\ pc[p] = "done"
        /\ reply[p] = Some(GuildOnlyReply)
        /\ errors /= {}
        /\ \E q \in Tasks : InFlight(q) /\ error[q] /= None


\* The footer that states n occurrences.
FooterFor(n) == IF n = 1 THEN FooterFirst ELSE FooterTimes(n)

\* Every handle_unexpected call made so far has returned Ok.
AllReturnedOk ==
    \A p \in Tasks : error[p] /= None => (pc[p] = "done" /\ result[p] = Ok)

\* C13 as stated: once every call has returned Ok, the footer of each row's
\* message states that row's occurrences.
C13_FooterShowsCount ==
    AllReturnedOk =>
        \A r \in errors :
            /\ AsU64(r.message_id) \in DOMAIN webhook
            /\ webhook[AsU64(r.message_id)].footer = FooterFor(r.occurrences)


\* A step of call p on the branch of an existing row (lines 63 to 72): its
\* UPDATE returning a row, its get_message or its edit_message.
UpdateBranchStep(p) ==
    /\ error[p] /= None
    /\ pc[p] \in {"query_opt", "get_message", "edit_message"}
    /\ pc'[p] /= pc[p]
    /\ row'[p] /= None

\* C14: a call that finds a row publishes no message and deletes none; its
\* UPDATE returns the count it has just incremented to, and its edit changes
\* nothing in the webhook but the footer of the row's message, set to that
\* count.
C14_UpdateBranchEditsFooterOnly ==
    /\ [][\A p \in Tasks : UpdateBranchStep(p) =>
            /\ DOMAIN webhook' = DOMAIN webhook
            /\ next_id' = next_id
            /\ message'[p] = None
            /\ pc[p] = "query_opt" =>
                 /\ Unwrap(row'[p]).occurrences = Occurrences(traceback_hash(p)) + 1
                 /\ Unwrap(row'[p]).occurrences = Occurrences(traceback_hash(p))'
            /\ IF pc[p] = "edit_message" /\ result'[p] = Ok
                 THEN webhook' = [webhook EXCEPT ![message_id(p)] =
                        [@ EXCEPT !.footer = FooterTimes(Unwrap(row[p]).occurrences)]]
                 ELSE webhook' = webhook]_vars
    /\ [](\A p \in Tasks : embed[p] /= None => message[p] = None)

C14_Witness ==
    \E p \in Tasks :
        /\ pc[p] = "done" /\ result[p] = Ok
        /\ embed[p] /= None
        /\ webhook[message_id(p)] =
              [title |-> "nil pointer", footer |-> FooterTimes(2)]
        /\ Cardinality(DOMAIN webhook) = 1


\* The upsert of call p returns a row in this step.
UpsertStep(p) ==
    /\ error[p] /= None
    /\ pc[p] = "query_one"
    /\ pc'[p] /= pc[p]
    /\ row'[p] /= None

\* C15: an upsert that returns another message id than the one the call
\* published is followed by the delete of the call's own message and by
\* nothing else (no get_message, no edit_message: the webhook changes only
\* by losing that message); an upsert that returns the call's own id ends
\* the call with Ok at once, its message kept.
C15_LoserDeletesWinnerKeeps ==
    /\ [][\A p \in Tasks : UpsertStep(p) =>
            /\ webhook' = webhook
            /\ IF Unwrap(row'[p]).message_id /= AsI64(OwnId(p))
                 THEN pc'[p] = "delete_message"
                 ELSE pc'[p] = "done" /\ result'[p] = Ok]_vars
    /\ [][\A p \in Tasks : (pc[p] = "delete_message" /\ pc'[p] /= pc[p]) =>
            /\ pc'[p] = "done"
            /\ embed'[p] = None
            /\ IF result'[p] = Ok
                 THEN /\ DOMAIN webhook' = DOMAIN webhook \ {OwnId(p)}
                      /\ OwnId(p) \in DOMAIN webhook
                      /\ \A id \in DOMAIN webhook' : webhook'[id] = webhook[id]
                 ELSE webhook' = webhook]_vars
    /\ [](\A p \in Tasks : Published(p) => embed[p] = None)
    /\ [](\A p \in Tasks :
            (Published(p) /\ Recorded(p) /\ ~LostRace(p)) =>
                /\ pc[p] = "done" /\ result[p] = Ok
                /\ OwnId(p) \in DOMAIN webhook)

C15_Witness ==
    \E p, q \in Tasks :
        /\ LostRace(p) /\ pc[p] = "done" /\ result[p] = Ok
        /\ OwnId(p) \notin DOMAIN webhook
        /\ Published(q) /\ Recorded(q) /\ ~LostRace(q)
        /\ webhook[OwnId(q)].footer = FooterFirst
        /\ Occurrences(traceback_hash(q)) = 2
        /\ traceback_hash(p) = traceback_hash(q)


\* C16 as stated: a call that failed before anything was recorded and a
\* call that failed in get_message or edit_message after its increment
\* return values the caller can tell apart.
C16_FailuresDistinguishable ==
    \A p, q \in Tasks :
        (/\ error[p] /= None /\ IsErr(result[p]) /\ ~Recorded(p)
         /\ error[q] /= None /\ IsErr(result[q]) /\ Recorded(q)
         /\ result[q][2] \in {"get_message", "edit_message"})
        => TypedResult(result[p]) /= TypedResult(result[q])


\* The order of the awaits of handle_unexpected.
Rank(l) ==
    CASE l = "idle" -> 0
      [] l = "pool.get" -> 1
      [] l = "query_opt" -> 2
      [] l \in {"get_message", "execute"} -> 3
      [] l \in {"edit_message", "query_one"} -> 4
      [] l = "delete_message" -> 5
      [] OTHER -> 6

\* C17: a failed store or webhook call ends the call at once with the error
\* of that call, the table and the webhook untouched by the failed step; a
\* call that has returned takes no further step; and a call only moves
\* forward through its awaits, so no store or webhook call is issued twice.
C17_FailureReturnsAtOnce ==
    /\ [][failures' /= failures =>
            \E p \in Tasks :
                /\ pc[p] /= "done" /\ pc'[p] = "done"
                /\ result'[p] = Err(pc[p])
                /\ UNCHANGED <<errors, webhook, next_id>>
                /\ \A q \in Tasks \ {p} : pc'[q] = pc[q]]_vars
    /\ [][\A p \in Tasks : pc[p] = "done" =>
            /\ pc'[p] = "done"
            /\ result'[p] = result[p]
            /\ row'[p] = row[p] /\ embed'[p] = embed[p]
            /\ message'[p] = message[p]]_vars
    /\ [][\A p \in Tasks : (error[p] /= None /\ pc'[p] /= pc[p]) =>
            Rank(pc'[p]) > Rank(pc[p])]_vars
    /\ [](\A p \in Tasks : IsErr(result[p]) => pc[p] = "done")

C17_Witness ==
    \E p, q \in Tasks :
        /\ result[p] = Err("query_one")
        /\ Published(p) /\ ~Recorded(p)
        /\ OwnId(p) \in DOMAIN webhook
        /\ result[q] = Err("edit_message")


\* The webhook messages that some row refers to.
Referenced == {id \in DOMAIN webhook : \E r \in errors : r.message_id = AsI64(id)}

\* C18: the message a row refers to is in the webhook in every state, and
\* every message that leaves the webhook is one no row refers to.
C18_ReferencedMessageKept ==
    /\ [](\A r \in errors : \E id \in DOMAIN webhook : r.message_id = AsI64(id))
    /\ [][\A id \in DOMAIN webhook :
            id \notin DOMAIN webhook' =>
                /\ id \notin Referenced
                /\ \A r \in errors' : r.message_id /= AsI64(id)]_vars

C18_Witness ==
    \E p \in Tasks :
        /\ LostRace(p) /\ pc[p] = "done" /\ result[p] = Ok
        /\ OwnId(p) \notin DOMAIN webhook
        /\ failures > 0
        /\ \E r \in errors : r.message_id < 0 /\ r.occurrences = 3


\* C19: with no failed call, once every handle_unexpected call made has
\* returned, the messages in the webhook are exactly the messages the rows
\* refer to, one per row.
C19_NoOrphanLeft ==
    (/\ failures = 0
     /\ \A p \in Tasks : error[p] /= None => pc[p] = "done")
    => /\ DOMAIN webhook = {AsU64(r.message_id) : r \in errors}
       /\ Cardinality(DOMAIN webhook) = Cardinality(errors)
       /\ \A p \in Tasks : error[p] /= None => result[p] = Ok

C19_Witness ==
    /\ failures = 0
    /\ \A p \in Tasks : error[p] /= None /\ pc[p] = "done"
    /\ Cardinality(errors) = 2
    /\ Cardinality(DOMAIN webhook) = 2
    /\ next_id = FirstId + 3

====
